---- MODULE Spec2Model ----
\* Contact-form endpoint of lertisento_web: the serverless handler /api/contact
\* (hardened and plain variants) and the Express route POST /contact.
\* Strings are sequences of one-character strings; CR and LF stand for the
\* carriage-return and line-feed characters.
EXTENDS Integers, Sequences, FiniteSets, TLC

CR == "CR"
LF == "LF"
SP == " "

\* ---------------------------------------------------------------------------
\* Bounds of the model
\* ---------------------------------------------------------------------------
MaxStrLen == 3
MaxChunks == 2

\* ---------------------------------------------------------------------------
\* Program constants
\* ---------------------------------------------------------------------------
BODY_LIMIT == 64 * 1024
COMPANY_MAX == 200
NAME_MAX == 120
EMAIL_MAX == 180
PHONE_MAX == 60
MESSAGE_MAX == 4000
NAME_MIN == 2
MESSAGE_MIN == 10
DEFAULT_STATUS == 500
GENERIC_STATUS == 500

\* ---------------------------------------------------------------------------
\* JavaScript values of the body's fields
\* ---------------------------------------------------------------------------
Str(s) == [t |-> "string", s |-> s, b |-> FALSE]
Bool(b) == [t |-> "boolean", s |-> <<>>, b |-> b]
Num == [t |-> "number", s |-> <<>>, b |-> FALSE]
Undefined == [t |-> "undefined", s |-> <<>>, b |-> FALSE]

Rep(c, n) == [i \in 1..n |-> c]

Min(S) == CHOOSE x \in S : \A y \in S : x <= y
Max(S) == CHOOSE x \in S : \A y \in S : x >= y

\* \s of the regular expressions and the characters String.prototype.trim removes
IsWs(c) == c \in {SP, CR, LF}

\* value.replace(/\r\n/g, '\n').replace(/\r/g, '\n'): a CR before an LF goes,
\* every other CR becomes an LF. The string is split in halves so that long
\* strings need little depth; a CR LF pair across the cut loses its CR.
RECURSIVE NormalizeEOL(_)
NormalizeEOL(s) ==
  IF Len(s) = 0 THEN <<>>
  ELSE IF Len(s) = 1 THEN (IF s[1] = CR THEN <<LF>> ELSE s)
  ELSE LET mid == Len(s) \div 2
           left == SubSeq(s, 1, mid)
           right == SubSeq(s, mid + 1, Len(s))
       IN IF s[mid] = CR /\ s[mid + 1] = LF
          THEN NormalizeEOL(SubSeq(s, 1, mid - 1)) \o NormalizeEOL(right)
          ELSE NormalizeEOL(left) \o NormalizeEOL(right)

\* String.prototype.trim
Trim(s) ==
  LET idx == {i \in 1..Len(s) : ~IsWs(s[i])}
  IN IF idx = {} THEN <<>> ELSE SubSeq(s, Min(idx), Max(idx))

\* String.prototype.slice(0, n) for n >= 0
Slice(s, n) == SubSeq(s, 1, IF n < Len(s) THEN n ELSE Len(s))

\* sanitize(value, maxLen)
sanitize(value, maxLen) ==
  IF value.t # "string" THEN <<>>
  ELSE Slice(Trim(NormalizeEOL(value.s)), maxLen)

\* value.replace(/[\r\n]+/g, ' '): every run of CR and LF becomes one space; a
\* run across the cut of the two halves gives one space, not two
RECURSIVE CollapseCRLF(_)
CollapseCRLF(s) ==
  IF Len(s) = 0 THEN <<>>
  ELSE IF Len(s) = 1 THEN (IF s[1] \in {CR, LF} THEN <<SP>> ELSE s)
  ELSE LET mid == Len(s) \div 2
           left == CollapseCRLF(SubSeq(s, 1, mid))
           right == CollapseCRLF(SubSeq(s, mid + 1, Len(s)))
       IN IF s[mid] \in {CR, LF} /\ s[mid + 1] \in {CR, LF}
          THEN left \o Tail(right)
          ELSE left \o right

\* stripCRLF(value), applied to strings only
stripCRLF(s) == Trim(CollapseCRLF(s))

\* the entity one character is replaced by
Entity(c) ==
  CASE c = "&" -> <<"&", "a", "m", "p", ";">>
    [] c = "<" -> <<"&", "l", "t", ";">>
    [] c = ">" -> <<"&", "g", "t", ";">>
    [] c = "\"" -> <<"&", "q", "u", "o", "t", ";">>
    [] c = "'" -> <<"&", "#", "3", "9", ";">>
    [] OTHER -> <<c>>

\* escapeText(value), applied to strings only: the five replacements in a row
\* never touch each other's output except for '&', which is replaced first
RECURSIVE escapeText(_)
escapeText(s) ==
  IF Len(s) = 0 THEN <<>>
  ELSE IF Len(s) = 1 THEN Entity(s[1])
  ELSE LET mid == Len(s) \div 2
       IN escapeText(SubSeq(s, 1, mid)) \o escapeText(SubSeq(s, mid + 1, Len(s)))

\* isEmail(value) for a string: /^[^\s@]+@[^\s@]+\.[^\s@]+$/.test(value.trim())
isEmail(s) ==
  LET t == Trim(s)
      ats == {i \in 1..Len(t) : t[i] = "@"}
  IN /\ \A i \in 1..Len(t) : ~IsWs(t[i])
     /\ Cardinality(ats) = 1
     /\ \E i \in ats :
          /\ i > 1
          /\ \E j \in (i + 2)..(Len(t) - 1) : t[j] = "."

HasCRLF(s) == \E i \in 1..Len(s) : s[i] \in {CR, LF}
\* ---------------------------------------------------------------------------
\* Responses and errors
\* ---------------------------------------------------------------------------
NoResponse == [status |-> 0, ok |-> FALSE, error |-> ""]
NoError == [statusCode |-> -1, message |-> ""]
NoMail == [subject |-> <<>>, replyTo |-> <<>>, name |-> <<>>, email |-> <<>>,
           phone |-> <<>>, message |-> <<>>]

\* json(res, status, body): the status and the body's ok and error members
json(status, ok, error) == [status |-> status, ok |-> ok, error |-> error]

\* requireField(condition, message): the error it throws, NoError when it returns
requireField(condition, message) ==
  IF condition THEN NoError ELSE [statusCode |-> 400, message |-> message]

\* the first statement of a sequence of statements that throws
RECURSIVE FirstError(_)
FirstError(errs) ==
  IF errs = <<>> THEN NoError
  ELSE IF Head(errs) # NoError THEN Head(errs)
  ELSE FirstError(Tail(errs))

\* the catch block of the handlers; statusCode 0 stands for an error without one
CatchResponse(err) ==
  LET statusCode == IF err.statusCode = 0 THEN DEFAULT_STATUS ELSE err.statusCode
  IN json(statusCode, FALSE,
          IF statusCode = GENERIC_STATUS THEN "Server error" ELSE err.message)

\* the error thrown by reading a member of a body that is null
TypeErrorOfNull == [statusCode |-> 0, message |-> "Cannot read properties of null"]

\* ---------------------------------------------------------------------------
\* The pipeline between the parsed body and the call of sendMail
\* ---------------------------------------------------------------------------
\* the rules without the consent rule
ValidationErrorNoGdpr(name, email, message, gdpr) ==
  FirstError(<<requireField(Len(name) >= NAME_MIN, "Name is required"),
               requireField(isEmail(email), "Valid email is required"),
               requireField(Len(message) >= MESSAGE_MIN, "Message is too short")>>)

\* the rules with a name rule that accepts one character
ValidationErrorShortName(name, email, message, gdpr) ==
  FirstError(<<requireField(Len(name) >= NAME_MIN - 1, "Name is required"),
               requireField(isEmail(email), "Valid email is required"),
               requireField(Len(message) >= MESSAGE_MIN, "Message is too short"),
               requireField(gdpr, "GDPR consent is required")>>)

\* the rules with the message rule ahead of the email rule
ValidationErrorMessageFirst(name, email, message, gdpr) ==
  FirstError(<<requireField(Len(name) >= NAME_MIN, "Name is required"),
               requireField(Len(message) >= MESSAGE_MIN, "Message is too short"),
               requireField(isEmail(email), "Valid email is required"),
               requireField(gdpr, "GDPR consent is required")>>)

\* the four required-field rules, in the order of the source
ValidationError(name, email, message, gdpr) ==
  FirstError(<<requireField(Len(name) >= NAME_MIN, "Name is required"),
               requireField(isEmail(email), "Valid email is required"),
               requireField(Len(message) >= MESSAGE_MIN, "Message is too short"),
               requireField(gdpr, "GDPR consent is required")>>)

\* createTransporter(): the error it throws, if any
TransporterError(e) ==
  FirstError(<<requireField(e.SMTP_HOST, "SMTP_HOST is not configured"),
               requireField(e.SMTP_USER, "SMTP_USER is not configured"),
               requireField(e.SMTP_PASS, "SMTP_PASS is not configured")>>)

\* the serverless handlers keep the transport in cachedTransporter, the Express
\* route builds one per request
UsesCache(v) == v \in {"api", "apiPlain"}

\* the options handed to sendMail
MailOf(v, name, email, phone, message) ==
  IF v = "api"
  THEN LET safeName == escapeText(stripCRLF(name))
           safeEmail == stripCRLF(email)
           safePhone == escapeText(stripCRLF(phone))
           safeMessage == escapeText(message)
       IN [subject |-> <<"Lertisento: ">> \o safeName, replyTo |-> safeEmail,
           name |-> safeName, email |-> safeEmail, phone |-> safePhone,
           message |-> safeMessage]
  ELSE [subject |-> <<"Contact form: ">> \o name, replyTo |-> email,
        name |-> name, email |-> email, phone |-> phone, message |-> message]
\* ---------------------------------------------------------------------------
\* State
\* ---------------------------------------------------------------------------
VARIABLES
  env,                \* process.env: which of the required settings are set
  variant,            \* the handler deployed: "api", "apiPlain" or "express"
  cachedTransporter,  \* the module-level cache of the serverless handlers, 0 when unset
  created,            \* the number of calls of nodemailer.createTransport
  req,                \* the requests in flight, with their inputs and locals
  sv, sn, sout        \* sanitize applied again and again: value, maxLen, results

vars == <<env, variant, cachedTransporter, created, req, sv, sn, sout>>

Reqs == {"r1", "r2"}

\* ---------------------------------------------------------------------------
\* Inputs
\* ---------------------------------------------------------------------------
Envs == [MAIL_TO : BOOLEAN, SMTP_HOST : BOOLEAN, SMTP_USER : BOOLEAN,
         SMTP_PASS : BOOLEAN]

Variants == {"api", "apiPlain", "express"}

\* a data event: the bytes received and the UTF-16 length of the decoded chunk
\* (data += chunk decodes the Buffer as UTF-8; data.length counts code units).
\* The chunks tried: a small one, half the limit and more than the limit in
\* one-byte characters, and the limit in two-byte characters.
Chunk(bytes, units) == [bytes |-> bytes, units |-> units]
SmallChunk == Chunk(100, 100)
ChunkKinds == {SmallChunk,
               Chunk(BODY_LIMIT \div 2, BODY_LIMIT \div 2),
               Chunk(BODY_LIMIT + 1, BODY_LIMIT + 1),
               Chunk(BODY_LIMIT, BODY_LIMIT \div 2)}

RECURSIVE SeqsUpTo(_, _)
SeqsUpTo(S, n) ==
  IF n = 0 THEN {<<>>}
  ELSE LET shorter == SeqsUpTo(S, n - 1)
       IN shorter \cup {Append(s, x) : s \in {q \in shorter : Len(q) = n - 1}, x \in S}

Chunkings == SeqsUpTo(ChunkKinds, MaxChunks)

RECURSIVE SumBytes(_)
SumBytes(cs) == IF cs = <<>> THEN 0 ELSE Head(cs).bytes + SumBytes(Tail(cs))

Fields(company, name, email, phone, message, gdpr) ==
  [company |-> company, name |-> name, email |-> email, phone |-> phone,
   message |-> message, gdpr |-> gdpr]

NoFields == Fields(Undefined, Undefined, Undefined, Undefined, Undefined, Undefined)

LongName == Rep("a", NAME_MAX - 1) \o <<LF, "b">>
AmpName == Rep("&", NAME_MAX)
LongEmail == Rep("a", EMAIL_MAX - 5) \o <<"@", "b", ".", "c", LF, "x">>

CompanyVals == {Undefined, Num, Str(<<SP, CR, LF>>), Str(<<"b", "o", "t">>)}
NameVals == {Num, Str(<<>>), Str(<<SP, "a", SP>>), Str(<<"J", "o">>),
             Str(<<"J", "o", CR, LF, "B", "c", "c", ":">>), Str(LongName),
             Str(AmpName)}
EmailVals == {Undefined, Str(<<"a", "@", "b">>), Str(<<"a", "@", "b", ".", "c">>),
              Str(<<SP, "a", "@", "b", ".", "c", CR, LF>>),
              Str(<<"a", "@", "b", ".", "c", CR, LF, "B", "c", "c", ":">>),
              Str(LongEmail)}
PhoneVals == {Undefined, Str(<<"+", "1", LF, "2">>), Str(Rep("'", PHONE_MAX))}
MessageVals == {Num, Str(Rep("m", MESSAGE_MIN - 1)),
                Str(Rep("m", MESSAGE_MIN - 1) \o <<"<">>)}
GdprVals == {Bool(TRUE), Bool(FALSE), Str(<<"t", "r", "u", "e">>)}

ValidFields == Fields(Undefined, Str(<<"J", "o">>), Str(<<"a", "@", "b", ".", "c">>),
                      Undefined, Str(Rep("m", MESSAGE_MIN)), Bool(TRUE))
BotFields == [ValidFields EXCEPT !.company = Str(<<"b", "o", "t">>)]

\* the bodies tried: every combination of passing and failing rules with a filled
\* and an empty honeypot, every name, email and phone of an otherwise valid
\* body, and every company and consent value of a valid body
RuleFields ==
  {Fields(c, n, e, Undefined, m, g) :
     c \in {Undefined, Str(<<"b", "o", "t">>)}, n \in NameVals,
     e \in {Str(<<"a", "@", "b">>), Str(<<"a", "@", "b", ".", "c">>)},
     m \in MessageVals \ {Num}, g \in {Bool(TRUE), Str(<<"t", "r", "u", "e">>)}}
MailFields ==
  {[ValidFields EXCEPT !.name = n, !.email = e, !.phone = p] :
     n \in NameVals, e \in EmailVals, p \in PhoneVals}
OtherFields ==
  {[ValidFields EXCEPT !.company = c, !.message = m, !.gdpr = g] :
     c \in CompanyVals, m \in MessageVals, g \in GdprVals}
FieldVals == RuleFields \cup MailFields \cup OtherFields

\* what JSON.parse makes of the body: a syntax error, null, a value that is no
\* object (its members read as undefined), or an object with these fields
Content(kind, fields) == [kind |-> kind, fields |-> fields]
FewContents == {Content("invalid", NoFields), Content("null", NoFields),
                Content("nonobject", NoFields), Content("object", ValidFields),
                Content("object", BotFields)}

Request(method, chunks, content) ==
  [method |-> method, chunks |-> chunks, content |-> content,
   pc |-> "new", next |-> 1, data |-> 0,
   aborted |-> FALSE, res |-> NoResponse, sent |-> 0, mail |-> NoMail,
   transporter |-> 0]

Absent == [Request("POST", <<>>, Content("empty", NoFields)) EXCEPT !.pc = "absent"]

\* the requests a serverless handler can receive
ApiRequests ==
  {Request(m, <<>>, Content("empty", NoFields)) : m \in {"OPTIONS", "GET", "POST"}}
  \cup {Request("POST", cs, c) : cs \in Chunkings \ {<<>>}, c \in FewContents}
  \cup {Request("POST", <<SmallChunk>>, Content("object", f)) : f \in FieldVals}

\* the requests that reach the Express route: POST with the body parsed by
\* express.json into an object
ExpressRequests ==
  {Request("POST", <<SmallChunk>>, Content("object", f)) : f \in FieldVals}
  \cup {Request("POST", <<>>, Content("empty", NoFields))}

RequestsOf(v) == IF v = "express" THEN ExpressRequests ELSE ApiRequests

\* the errors a rejected sendMail or a failed request stream can carry
ExternalErrors ==
  {[statusCode |-> 0, message |-> "connect ECONNREFUSED"],
   [statusCode |-> 500, message |-> "relay failure detail"],
   [statusCode |-> 503, message |-> "relay unavailable detail"],
   [statusCode |-> 404, message |-> "not found"]}
\* ---------------------------------------------------------------------------
\* The handler from the parsed body to the call of sendMail
\* ---------------------------------------------------------------------------
Respond(res) == [res |-> res, send |-> FALSE, mail |-> NoMail, create |-> FALSE]

\* the honeypot test: sanitize(body.company, 200) is a non-empty string
Honey(fields) == sanitize(fields.company, COMPANY_MAX)
HoneypotFilled(fields) == Honey(fields) # <<>>

\* the error of the four rules on the sanitized fields of a body
RulesError(fields) ==
  ValidationError(sanitize(fields.name, NAME_MAX), sanitize(fields.email, EMAIL_MAX),
                  sanitize(fields.message, MESSAGE_MAX), fields.gdpr = Bool(TRUE))

\* createTransporter() without the test of cachedTransporter
NeedsTransportAlways(v, cached) == TRUE

\* createTransporter() returns the cached transport without reading the settings
NeedsTransport(v, cached) == ~(UsesCache(v) /\ cached # 0)

\* from the honeypot to the call of sendMail (src/unnamed/part_000 127-185,
\* 305-339; src/server.js 86-120)
Submit(v, e, cached, fields) ==
  IF HoneypotFilled(fields) THEN Respond(json(200, TRUE, ""))
  ELSE IF RulesError(fields) # NoError THEN Respond(CatchResponse(RulesError(fields)))
  ELSE IF NeedsTransport(v, cached) /\ TransporterError(e) # NoError
       THEN Respond(CatchResponse(TransporterError(e)))
  ELSE [res |-> NoResponse, send |-> TRUE,
        mail |-> MailOf(v, sanitize(fields.name, NAME_MAX),
                        sanitize(fields.email, EMAIL_MAX),
                        sanitize(fields.phone, PHONE_MAX),
                        sanitize(fields.message, MESSAGE_MAX)),
        create |-> NeedsTransport(v, cached)]

\* body = raw ? JSON.parse(raw) : {} and what follows it
Parsed(v, e, cached, raw, content) ==
  IF raw = 0 THEN Submit(v, e, cached, NoFields)
  ELSE IF content.kind = "invalid" THEN Respond(json(400, FALSE, "Invalid JSON"))
  ELSE IF content.kind = "null" THEN Respond(CatchResponse(TypeErrorOfNull))
  ELSE Submit(v, e, cached, content.fields)

\* the state after the synchronous run that ends in a response or in the await
\* of sendMail
Continue(r, out) ==
  /\ req' = [req EXCEPT ![r].pc = IF out.send THEN "sending" ELSE "done",
                        ![r].res = out.res,
                        ![r].sent = @ + (IF out.send THEN 1 ELSE 0),
                        ![r].mail = out.mail,
                        ![r].transporter =
                          IF ~out.send THEN 0
                          ELSE IF out.create THEN created + 1
                          ELSE cachedTransporter]
  /\ created' = IF out.create THEN created + 1 ELSE created
  /\ cachedTransporter' =
       IF out.create /\ UsesCache(variant) THEN created + 1 ELSE cachedTransporter

Done(r, res) ==
  /\ req' = [req EXCEPT ![r].pc = "done", ![r].res = res]
  /\ UNCHANGED <<cachedTransporter, created>>

\* the request stream failed: the response of the catch, and the fact recorded
Aborted(r, res) ==
  /\ req' = [req EXCEPT ![r].pc = "done", ![r].res = res, ![r].aborted = TRUE]
  /\ UNCHANGED <<cachedTransporter, created>>

\* ---------------------------------------------------------------------------
\* Actions
\* ---------------------------------------------------------------------------
\* the serverless handler up to the await of the body (part_000 81-118)
HandleApi(r) ==
  /\ UsesCache(variant)
  /\ req[r].pc = "new"
  /\ IF req[r].method = "OPTIONS" THEN Done(r, json(204, FALSE, ""))
     ELSE IF req[r].method # "POST"
          THEN Done(r, json(405, FALSE, "Method not allowed"))
     ELSE IF requireField(env.MAIL_TO, "MAIL_TO is not configured") # NoError
          THEN Done(r, CatchResponse(requireField(env.MAIL_TO,
                                                  "MAIL_TO is not configured")))
     ELSE /\ req' = [req EXCEPT ![r].pc = "reading"]
          /\ UNCHANGED <<cachedTransporter, created>>
  /\ UNCHANGED <<env, variant, sv, sn, sout>>

\* req.on('data'): data += chunk, and the size test (part_000 109-115)
OnData(r) ==
  /\ req[r].pc = "reading"
  /\ req[r].next <= Len(req[r].chunks)
  /\ LET data == req[r].data + req[r].chunks[req[r].next].units
     IN IF data > BODY_LIMIT
        THEN req' = [req EXCEPT ![r].pc = "done", ![r].data = data,
                                ![r].next = @ + 1,
                                ![r].res = CatchResponse(
                                  [statusCode |-> 413,
                                   message |-> "Payload too large"])]
        ELSE req' = [req EXCEPT ![r].data = data, ![r].next = @ + 1]
  /\ UNCHANGED <<env, variant, cachedTransporter, created, sv, sn, sout>>

\* req.on('end'): the promise resolves and the handler runs on to sendMail
OnEnd(r) ==
  /\ req[r].pc = "reading"
  /\ req[r].next > Len(req[r].chunks)
  /\ Continue(r, Parsed(variant, env, cachedTransporter, req[r].data, req[r].content))
  /\ UNCHANGED <<env, variant, sv, sn, sout>>

\* req.on('error'): the promise rejects with the stream's error
OnError(r) ==
  /\ req[r].pc = "reading"
  /\ \E err \in ExternalErrors : Aborted(r, CatchResponse(err))
  /\ UNCHANGED <<env, variant, sv, sn, sout>>

\* the Express route, which receives the parsed body (server.js 83-120)
HandleExpress(r) ==
  /\ variant = "express"
  /\ req[r].pc = "new"
  /\ Continue(r, Submit(variant, env, cachedTransporter, req[r].content.fields))
  /\ UNCHANGED <<env, variant, sv, sn, sout>>

\* sendMail resolves; without a recipient (MAIL_TO unset) it cannot
SendMailResolves(r) ==
  /\ req[r].pc = "sending"
  /\ env.MAIL_TO
  /\ Done(r, json(200, TRUE, ""))
  /\ UNCHANGED <<env, variant, sv, sn, sout>>

\* sendMail rejects
SendMailRejects(r) ==
  /\ req[r].pc = "sending"
  /\ \E err \in ExternalErrors : Done(r, CatchResponse(err))
  /\ UNCHANGED <<env, variant, sv, sn, sout>>

\* ---------------------------------------------------------------------------
\* Specification of one request
\* ---------------------------------------------------------------------------
Init ==
  /\ env \in Envs
  /\ variant \in Variants
  /\ cachedTransporter = 0
  /\ created = 0
  /\ \E q \in RequestsOf(variant) : req = [r \in Reqs |-> IF r = "r1" THEN q ELSE Absent]
  /\ sv = Undefined
  /\ sn = 0
  /\ sout = <<>>

Next ==
  \E r \in Reqs :
    \/ HandleApi(r)
    \/ OnData(r)
    \/ OnEnd(r)
    \/ OnError(r)
    \/ HandleExpress(r)
    \/ SendMailResolves(r)
    \/ SendMailRejects(r)

Spec == Init /\ [][Next]_vars
\* ---------------------------------------------------------------------------
\* sanitize applied to its own result
\* ---------------------------------------------------------------------------
SanitizeInputs ==
  {Num} \cup {Str(s) : s \in SeqsUpTo({"a", SP, CR, LF}, MaxStrLen)}

InitSanitize ==
  /\ env = [MAIL_TO |-> TRUE, SMTP_HOST |-> TRUE, SMTP_USER |-> TRUE,
            SMTP_PASS |-> TRUE]
  /\ variant = "api"
  /\ cachedTransporter = 0
  /\ created = 0
  /\ req = [r \in Reqs |-> Absent]
  /\ sv \in SanitizeInputs
  /\ sn \in 0..MaxStrLen
  /\ sout = <<>>

\* sanitize(value, maxLen), then sanitize of the result, and so on
ApplySanitize ==
  /\ Len(sout) < 2
  /\ sout' = Append(sout, sanitize(IF sout = <<>> THEN sv ELSE Str(sout[Len(sout)]), sn))
  /\ UNCHANGED <<env, variant, cachedTransporter, created, req, sv, sn>>

NextSanitize == ApplySanitize

SpecSanitize == InitSanitize /\ [][NextSanitize]_vars

\* ---------------------------------------------------------------------------
\* The requests the claims speak of
\* ---------------------------------------------------------------------------
\* the fields the handler reads from the body of request q
FieldsOf(q) == IF q.chunks = <<>> THEN NoFields ELSE q.content.fields

RECURSIVE SumUnits(_)
SumUnits(cs) == IF cs = <<>> THEN 0 ELSE Head(cs).units + SumUnits(Tail(cs))

\* a POST whose body is at most 64 KiB and whose stream did not fail
WithinLimit(q) ==
  q.method = "POST" /\ ~q.aborted /\ SumBytes(q.chunks) <= BODY_LIMIT

\* such a POST whose body is a JSON object (the empty body counts as {})
IsSubmission(q) ==
  WithinLimit(q) /\ (q.chunks = <<>> \/ q.content.kind = "object")

NameOf(q) == sanitize(FieldsOf(q).name, NAME_MAX)
EmailOf(q) == sanitize(FieldsOf(q).email, EMAIL_MAX)
MessageOf(q) == sanitize(FieldsOf(q).message, MESSAGE_MAX)
GdprOf(q) == FieldsOf(q).gdpr.t = "boolean" /\ FieldsOf(q).gdpr.b

NameOk(q) == Len(NameOf(q)) >= 2
EmailOk(q) == isEmail(EmailOf(q))
MessageOk(q) == Len(MessageOf(q)) >= 10
AllRulesOk(q) == NameOk(q) /\ EmailOk(q) /\ MessageOk(q) /\ GdprOf(q)

HoneypotEmpty(q) == sanitize(FieldsOf(q).company, COMPANY_MAX) = <<>>

\* the message of the first rule that fails, "" when none does
FirstFailure(q) ==
  IF ~NameOk(q) THEN "Name is required"
  ELSE IF ~EmailOk(q) THEN "Valid email is required"
  ELSE IF ~MessageOk(q) THEN "Message is too short"
  ELSE IF ~GdprOf(q) THEN "GDPR consent is required"
  ELSE ""

RuleMessages == {"Name is required", "Valid email is required",
                 "Message is too short", "GDPR consent is required"}

\* the serverless handler refuses every POST while MAIL_TO is unset
MailToRefused == UsesCache(variant) /\ ~env.MAIL_TO

\* ---------------------------------------------------------------------------
\* Claims
\* ---------------------------------------------------------------------------
\* C2: a request calls sendMail at most once, and only when it is a POST with a
\* parsed body whose honeypot is empty and whose four rules all pass; a request
\* answered with a validation error, Invalid JSON, Payload too large or Method
\* not allowed has not called sendMail.
C2_SendOnlyAfterValidation ==
  \A r \in Reqs :
    /\ req[r].sent <= 1
    /\ req[r].sent > 0 =>
         /\ req[r].method = "POST"
         /\ req[r].chunks # <<>> => req[r].content.kind \in {"object", "nonobject"}
         /\ SumUnits(req[r].chunks) <= BODY_LIMIT
         /\ HoneypotEmpty(req[r])
         /\ AllRulesOk(req[r])
    /\ (req[r].pc = "done" /\ req[r].res.error \in
          RuleMessages \cup {"Invalid JSON", "Payload too large", "Method not allowed"})
         => req[r].sent = 0

\* a request whose mail was sent and answered with success
C2_Witness ==
  \E r \in Reqs :
    req[r].pc = "done" /\ req[r].sent = 1 /\ req[r].res = json(200, TRUE, "")

C4_FirstFailingRuleReported ==
  \A r \in Reqs :
    /\ (req[r].pc = "done" /\ IsSubmission(req[r]) /\ HoneypotEmpty(req[r])
          /\ ~MailToRefused /\ FirstFailure(req[r]) # "")
         => req[r].res = json(400, FALSE, FirstFailure(req[r]))
    /\ (req[r].pc = "done" /\ req[r].res.error \in RuleMessages)
         => req[r].res.error = FirstFailure(req[r])

\* the email, message and consent rules all fail and the email rule is reported
C4_Witness ==
  \E r \in Reqs :
    /\ req[r].pc = "done" /\ NameOk(req[r])
    /\ ~EmailOk(req[r]) /\ ~MessageOk(req[r]) /\ ~GdprOf(req[r])
    /\ req[r].res = json(400, FALSE, "Valid email is required")
\* C1: every request whose company is a non-empty string after sanitize is
\* answered 200 {"ok": true} and calls sendMail zero times, whatever the other
\* fields and whatever the mail configuration.
C1_HoneypotSilentSuccess ==
  \A r \in Reqs :
    (IsSubmission(req[r]) /\ ~HoneypotEmpty(req[r]))
      => /\ req[r].sent = 0
         /\ req[r].pc = "done" => req[r].res = json(200, TRUE, "")

\* the configuration lacks MAIL_TO, SMTP_HOST, SMTP_USER or SMTP_PASS
ConfigMissing ==
  ~(env.MAIL_TO /\ env.SMTP_HOST /\ env.SMTP_USER /\ env.SMTP_PASS)

\* C5: with MAIL_TO, SMTP_HOST, SMTP_USER or SMTP_PASS unset, a valid submission
\* (empty honeypot, the four rules pass) is answered 500 with the error "Server
\* error": never a 4xx, never the name of the missing setting.
C5_ConfigErrorIsGeneric500 ==
  \A r \in Reqs :
    (req[r].pc = "done" /\ IsSubmission(req[r]) /\ HoneypotEmpty(req[r])
       /\ AllRulesOk(req[r]) /\ ConfigMissing)
      => req[r].res = json(500, FALSE, "Server error")

\* C6: a response with a status of 500 or more carries the error "Server error"
\* and never the message of the error caught; a response to an error with a
\* status below 500 carries that error's message.
C6_ServerErrorsAreGeneric ==
  \A r \in Reqs :
    req[r].pc = "done" =>
      /\ req[r].res.status >= 500 => req[r].res.error = "Server error"
      /\ (req[r].res.status \in 400..499 /\ ~req[r].res.ok)
           => req[r].res.error # "Server error"

\* C7: in every call of sendMail the subject and the replyTo address contain
\* neither a carriage return nor a line feed.
C7_HeadersWithoutCRLF ==
  \A r \in Reqs :
    req[r].sent > 0 => ~HasCRLF(req[r].mail.subject) /\ ~HasCRLF(req[r].mail.replyTo)

\* the bytes of the chunks whose data event has run
BytesReceived(q) == SumBytes(SubSeq(q.chunks, 1, q.next - 1))

\* C8: a POST to the serverless handler whose body exceeds 64 KiB is answered
\* 413 as soon as the bytes received pass the limit, under any chunking, and
\* never calls sendMail. It is stated of a handler with MAIL_TO set, which
\* reads the body, so that a violation is one of the size test itself.
C8_OversizedBodyIs413 ==
  \A r \in Reqs :
    (UsesCache(variant) /\ env.MAIL_TO /\ req[r].method = "POST"
       /\ req[r].pc # "new" /\ ~req[r].aborted) =>
      /\ BytesReceived(req[r]) > BODY_LIMIT
           => req[r].pc = "done" /\ req[r].res.status = 413
      /\ (req[r].pc = "done" /\ SumBytes(req[r].chunks) > BODY_LIMIT)
           => req[r].res.status = 413
      /\ SumBytes(req[r].chunks) > BODY_LIMIT => req[r].sent = 0

\* C9: a POST within the size limit whose body is not a well-formed JSON object
\* (unparseable text, null or another non-object) is answered 400, never 500;
\* and a JSON object is never answered with the 500 of a type error before
\* sendMail is called, whatever the types of its fields.
C9_MalformedBodyIs400 ==
  \A r \in Reqs :
    (req[r].pc = "done" /\ WithinLimit(req[r]) /\ req[r].chunks # <<>>) =>
      /\ req[r].content.kind \in {"invalid", "null", "nonobject"}
           => req[r].res.status = 400
      /\ (req[r].content.kind = "object" /\ req[r].sent = 0)
           => req[r].res.status \in {200, 400}

\* C10: sanitize(sanitize(v, n), n) = sanitize(v, n), and the result of sanitize
\* neither begins nor ends with whitespace.
C10_SanitizeIdempotent ==
  /\ Len(sout) = 2 => sout[2] = sout[1]
  /\ \A i \in 1..Len(sout) :
       sout[i] # <<>> => ~IsWs(sout[i][1]) /\ ~IsWs(sout[i][Len(sout[i])])
\* C11: every field value handed to sendMail respects its length bound after
\* the hardening and escaping steps: name at most 120 characters, email at most
\* 180, phone at most 60, message at most 4000.
C11_MailFieldsBounded ==
  \A r \in Reqs :
    req[r].sent > 0 =>
      /\ Len(req[r].mail.name) <= 120
      /\ Len(req[r].mail.email) <= 180
      /\ Len(req[r].mail.phone) <= 60
      /\ Len(req[r].mail.message) <= 4000
\* ---------------------------------------------------------------------------
\* Two requests in one process
\* ---------------------------------------------------------------------------
\* the requests tried together: a valid submission in one and in two data
\* events, a bot's submission and an empty body
ConcurrentRequests(v) ==
  {Request("POST", <<SmallChunk>>, Content("object", f)) : f \in {ValidFields, BotFields}}
  \cup {Request("POST", <<>>, Content("empty", NoFields))}
  \cup (IF UsesCache(v)
        THEN {Request("POST", <<SmallChunk, SmallChunk>>, Content("object", ValidFields))}
        ELSE {})

InitConcurrent ==
  /\ env \in Envs
  /\ variant \in Variants
  /\ cachedTransporter = 0
  /\ created = 0
  /\ req \in [Reqs -> ConcurrentRequests(variant)]
  /\ sv = Undefined
  /\ sn = 0
  /\ sout = <<>>

SpecConcurrent == InitConcurrent /\ [][Next]_vars

\* the requests that have called sendMail
Dispatched == {r \in Reqs : req[r].sent > 0}

====
